---- MODULE Spec2Model ----
(***************************************************************************)
(* LocaltuyaClimate (custom_components/localtuya/climate.py): the decoding *)
(* of a Tuya thermostat's datapoints (DPs) into HVAC mode and preset, the  *)
(* scaling of its temperatures, the inferred HVAC action and the DP writes *)
(* of its commands.                                                        *)
(*                                                                         *)
(* The device (its DP state, its set_dp write channel) and the helpers of  *)
(* LocalTuyaEntity (dps, dps_conf, has_config) live outside climate.py and *)
(* are modelled from their description.                                    *)
(***************************************************************************)
EXTENDS Integers, Sequences, FiniteSets, TLC

(***************************************************************************)
(* Bounds of the model.                                                    *)
(***************************************************************************)
\* raw temperature DPs range over 0..MaxRaw
MaxRaw == 3
\* requested temperatures range over 0, 0.5, ..., MaxReq / 2
MaxReq == 3

(***************************************************************************)
(* Python values held by DPs: None, bool, int and str (of a decimal).      *)
(* bool is a subclass of int: True == 1 and False == 0, and they hash      *)
(* alike, so they are the same member of a set of items.                   *)
(***************************************************************************)
None     == [t |-> "none", v |-> 0]
PyBool(b) == [t |-> "bool", v |-> IF b THEN 1 ELSE 0]
PyInt(n) == [t |-> "int", v |-> n]
PyStr(n) == [t |-> "str", v |-> n]
IsNumber(a) == a.t \in {"bool", "int"}
PyEq(a, b) == IF IsNumber(a) /\ IsNumber(b) THEN a.v = b.v ELSE a = b

(***************************************************************************)
(* Python floats (IEEE-754 binary64, round to nearest, ties to even).      *)
(* Every float the entity computes over the modelled ranges is a whole     *)
(* number of 2^-FracBits below 2^6; a float is kept as that number, exact, *)
(* in two limbs <<hi, lo>> = hi * 2^30 + lo, with its sign.  Small ints    *)
(* take part in the arithmetic as the float of the same value, as in       *)
(* Python's int-with-float arithmetic.                                     *)
(*                                                                         *)
(* An intermediate result is bound as the member of a one-element set      *)
(* ({e(v) : v \in {value}}), which computes it once wherever it is used.   *)
(***************************************************************************)
MantBits == 53
FracBits == 55
Two30 == 2^30
The(S) == CHOOSE r \in S : TRUE

NatBits(n) == IF n = 0 THEN 0 ELSE CHOOSE k \in 1..31 : n \div 2^(k - 1) = 1

MZero == <<0, 0>>
MCarry(hi, l) == <<hi + (l \div Two30), l % Two30>>
MAdd(a, b) == The({MCarry(u[1] + v[1], u[2] + v[2]) : u \in {a}, v \in {b}})
MBorrow(hi, l) == IF l >= 0 THEN <<hi, l>> ELSE <<hi - 1, l + Two30>>
MSub(a, b) == The({MBorrow(u[1] - v[1], u[2] - v[2]) : u \in {a}, v \in {b}})
MLess(a, b) == \E u \in {a}, v \in {b} : u[1] < v[1] \/ (u[1] = v[1] /\ u[2] < v[2])
MBits(a) == The({IF u[1] > 0 THEN 30 + NatBits(u[1]) ELSE NatBits(u[2]) : u \in {a}})
MBit(a, i) == IF i >= 30 THEN (a[1] \div 2^(i - 30)) % 2 ELSE (a[2] \div 2^i) % 2

\* a + (what lies below one unit) rounded to d bits fewer, ties to even;
\* frac is 0 (nothing below), 1 (less than half a unit), 2 (half), 3 (more)
MRoundOff(a, frac, d) ==
    IF d <= 0
    THEN IF frac = 3 \/ (frac = 2 /\ a[2] % 2 = 1) THEN MAdd(a, <<0, 1>>) ELSE a
    ELSE LET r    == a[2] % 2^d
             half == 2^(d - 1)
             odd  == MBit(a, d) = 1
             up   == r > half \/ (r = half /\ (frac > 0 \/ odd))
         IN  IF up THEN MAdd(<<a[1], a[2] - r>>, <<0, 2^d>>) ELSE <<a[1], a[2] - r>>
\* ... rounded to MantBits significant bits
MRound(a, frac) ==
    The({MRoundOff(u[1], frac, u[2]) : u \in {<<v, MBits(v) - MantBits>> : v \in {a}}})

Dbl(neg, mag) == The({[neg |-> neg /\ m # MZero, mag |-> m] : m \in {mag}})
FromInt(n) == IF n >= 0 THEN Dbl(FALSE, <<n * 2^(FracBits - 30), 0>>)
              ELSE Dbl(TRUE, <<(-n) * 2^(FracBits - 30), 0>>)
\* k / 2 for a natural number k
Halves(k) == Dbl(FALSE, <<k * 2^(FracBits - 31), 0>>)
FNeg(x) == The({Dbl(~u.neg, u.mag) : u \in {x}})
AddSigned(x, y) ==
    IF x.neg = y.neg THEN Dbl(x.neg, MRound(MAdd(x.mag, y.mag), 0))
    ELSE IF MLess(x.mag, y.mag) THEN Dbl(y.neg, MRound(MSub(y.mag, x.mag), 0))
    ELSE Dbl(x.neg, MRound(MSub(x.mag, y.mag), 0))
\* x + y
FAdd(x, y) == The({AddSigned(u, v) : u \in {x}, v \in {y}})
\* x - y
FSub(x, y) == The({AddSigned(u, FNeg(v)) : u \in {x}, v \in {y}})
\* x < y
FLess(x, y) ==
    \E u \in {x}, v \in {y} :
        IF u.neg /\ ~v.neg THEN TRUE
        ELSE IF ~u.neg /\ v.neg THEN FALSE
        ELSE IF u.neg THEN MLess(v.mag, u.mag) ELSE MLess(u.mag, v.mag)

RECURSIVE MTimes(_, _)
MTimes(k, a) == IF k = 0 THEN MZero
                ELSE IF k % 2 = 1 THEN The({MAdd(a, h) : h \in {MTimes(k - 1, a)}})
                ELSE The({MAdd(h, h) : h \in {MTimes(k \div 2, a)}})
\* k * x for an int k
MulSigned(k, x) == IF k >= 0 THEN Dbl(x.neg, MRound(MTimes(k, x.mag), 0))
                   ELSE Dbl(~x.neg, MRound(MTimes(-k, x.mag), 0))
FMulInt(k, x) == The({MulSigned(j, u) : j \in {k}, u \in {x}})

\* a * 2^n and a \div 2^n
MShl(a, n) ==
    IF n >= 30 THEN <<(a[1] * Two30 + a[2]) * 2^(n - 30), 0>>
    ELSE <<a[1] * 2^n + a[2] \div 2^(30 - n), (a[2] % 2^(30 - n)) * 2^n>>
MShr(a, n) ==
    IF n >= 30 THEN <<0, a[1] \div 2^(n - 30)>>
    ELSE <<a[1] \div 2^n, a[2] \div 2^n + (a[1] % 2^n) * 2^(30 - n)>>

\* The long division of a * 2^FracBits by b, a bit of the dividend at a time;
\* s = <<index of the next bit, quotient, remainder>>.  Once the dividend has
\* only zeros left and the remainder is zero the quotient's other bits are zero.
MDivBit(b, i, q2, r2) ==
    IF MLess(r2, b) THEN <<i - 1, q2, r2>> ELSE <<i - 1, MAdd(q2, <<0, 1>>), MSub(r2, b)>>
MDivStep(a, b, s) ==
    IF s[1] < 0 THEN s
    ELSE IF s[1] < FracBits /\ s[3] = MZero THEN <<-1, MShl(s[2], s[1] + 1), MZero>>
    ELSE The({MDivBit(b, s[1], q2, r2) :
                q2 \in {MAdd(s[2], s[2])},
                r2 \in {MAdd(MAdd(s[3], s[3]),
                             <<0, IF s[1] >= FracBits THEN MBit(a, s[1] - FracBits) ELSE 0>>)}})
MDiv2(a, b, s)   == IF s[1] < 0 THEN s ELSE The({MDivStep(a, b, t) : t \in {MDivStep(a, b, s)}})
MDiv4(a, b, s)   == IF s[1] < 0 THEN s ELSE The({MDiv2(a, b, t)    : t \in {MDiv2(a, b, s)}})
MDiv8(a, b, s)   == IF s[1] < 0 THEN s ELSE The({MDiv4(a, b, t)    : t \in {MDiv4(a, b, s)}})
MDiv16(a, b, s)  == IF s[1] < 0 THEN s ELSE The({MDiv8(a, b, t)    : t \in {MDiv8(a, b, s)}})
MDiv32(a, b, s)  == IF s[1] < 0 THEN s ELSE The({MDiv16(a, b, t)   : t \in {MDiv16(a, b, s)}})
MDiv64(a, b, s)  == IF s[1] < 0 THEN s ELSE The({MDiv32(a, b, t)   : t \in {MDiv32(a, b, s)}})
MDiv128(a, b, s) == IF s[1] < 0 THEN s ELSE The({MDiv64(a, b, t)   : t \in {MDiv64(a, b, s)}})
\* the division starts below the leading bits of a that are too few to hold b
MDivStart(a, sh) == <<sh + FracBits - 1, MZero, MShr(a, sh)>>
MDiv(a, b) ==
    The({MDiv128(a, b, MDivStart(a, sh)) :
           sh \in {IF MBits(a) < MBits(b) THEN 0 ELSE MBits(a) - MBits(b) + 1}})
\* what the remainder r of a division by b leaves below one unit of the quotient
MFrac(r, b) ==
    IF r = MZero THEN 0
    ELSE The({IF MLess(r2, b) THEN 1 ELSE IF r2 = b THEN 2 ELSE 3 : r2 \in {MAdd(r, r)}})
DivSigned(x, y) ==
    The({Dbl(x.neg # y.neg, MRound(s[2], MFrac(s[3], y.mag))) : s \in {MDiv(x.mag, y.mag)}})
\* x / y
FDiv(x, y) == The({DivSigned(u, v) : u \in {x}, v \in {y}})

\* Mutant of PyRound: math.ceil(x), a rounding that is not to the nearest int.
PyCeil(x) ==
    The({IF u.neg THEN -(u.mag[1] \div 2^(FracBits - 30))
         ELSE u.mag[1] \div 2^(FracBits - 30)
              + (IF <<u.mag[1] % 2^(FracBits - 30), u.mag[2]>> = MZero THEN 0 ELSE 1) :
         u \in {x}})

\* round(x): the nearest int, ties to even
RoundSigned(x) ==
    LET n    == x.mag[1] \div 2^(FracBits - 30)
        rest == <<x.mag[1] % 2^(FracBits - 30), x.mag[2]>>
        half == <<2^(FracBits - 31), 0>>
        up   == MLess(half, rest) \/ (rest = half /\ n % 2 = 1)
        m    == IF up THEN n + 1 ELSE n
    IN  IF x.neg THEN -m ELSE m
PyRound(x) == The({RoundSigned(u) : u \in {x}})

\* homeassistant.const PRECISION_WHOLE = 1, PRECISION_HALVES = 0.5, PRECISION_TENTHS = 0.1
PRECISION_WHOLE  == FromInt(1)
PRECISION_HALVES == Halves(1)
PRECISION_TENTHS == FDiv(FromInt(1), FromInt(10))
Precisions == {PRECISION_WHOLE, PRECISION_HALVES, PRECISION_TENTHS}
DEFAULT_CURRENT_TEMPERATURE_MULTIPLIER == PRECISION_TENTHS
DEFAULT_TARGET_TEMPERATURE_MULTIPLIER  == PRECISION_WHOLE

(***************************************************************************)
(* Names.  A mode, preset or action that is still None is NoValue.  The    *)
(* action the description calls idle is CURRENT_HVAC_OFF in the code.      *)
(***************************************************************************)
NoValue           == "None"
HVAC_MODE_OFF     == "off"
HVAC_MODE_HEAT    == "heat"
HVAC_MODE_AUTO    == "auto"
CURRENT_HVAC_OFF  == "CURRENT_HVAC_OFF"
CURRENT_HVAC_HEAT == "CURRENT_HVAC_HEAT"
CONF_TARGET_TEMPERATURE_DP  == "target_temperature_dp"
CONF_CURRENT_TEMPERATURE_DP == "current_temperature_dp"

(***************************************************************************)
(* The tables: each entry a name and its (dp_id, value) items, in the      *)
(* order the dict literals declare them.                                   *)
(***************************************************************************)
\* Mutant of modes: off is defined by DP 4 as well.
modesOffWithDp4 ==
    << [name |-> HVAC_MODE_OFF,  items |-> << <<1, PyBool(FALSE)>>, <<4, PyStr(0)>> >>],
       [name |-> HVAC_MODE_HEAT, items |-> << <<1, PyBool(TRUE)>>, <<4, PyStr(1)>> >>],
       [name |-> HVAC_MODE_AUTO, items |-> << <<1, PyBool(TRUE)>>, <<4, PyStr(0)>> >>] >>
modes ==
    << [name |-> HVAC_MODE_OFF,  items |-> << <<1, PyBool(FALSE)>> >>],
       [name |-> HVAC_MODE_HEAT, items |-> << <<1, PyBool(TRUE)>>, <<4, PyStr(1)>> >>],
       [name |-> HVAC_MODE_AUTO, items |-> << <<1, PyBool(TRUE)>>, <<4, PyStr(0)>> >>] >>
\* Mutant of presets: Eco On switches the thermostat on as well.
presetsEcoWithDp1 ==
    << [name |-> "Eco On",  items |-> << <<5, PyBool(TRUE)>>, <<1, PyBool(TRUE)>> >>],
       [name |-> "Eco Off", items |-> << <<5, PyBool(FALSE)>> >>] >>
presets ==
    << [name |-> "Eco On",  items |-> << <<5, PyBool(TRUE)>> >>],
       [name |-> "Eco Off", items |-> << <<5, PyBool(FALSE)>> >>] >>

Range(seq) == {seq[i] : i \in DOMAIN seq}
Names(table) == {table[i].name : i \in DOMAIN table}
\* table[name]
Lookup(table, name) == (CHOOSE i \in DOMAIN table : table[i].name = name)

VARIABLES
    config,               \* self._config, with self._precision and self._target_temperature_precision
    device,               \* the device's DP state: what dps(i) gives at a status update
    hvac_mode,            \* self._hvac_mode
    preset_mode,          \* self._preset_mode
    hvac_action,          \* self._hvac_action
    target_temperature,   \* self._target_temperature
    current_temperature,  \* self._current_temperature
    tasks,                \* the command coroutines, one per caller
    last                  \* the operation that ran last, what it returned, the entity before it
vars == <<config, device, hvac_mode, preset_mode, hvac_action, target_temperature,
          current_temperature, tasks, last>>
entity == <<hvac_mode, preset_mode, hvac_action, target_temperature, current_temperature>>

(***************************************************************************)
(* LocalTuyaEntity helpers.                                                *)
(***************************************************************************)
has_config(attr) == attr \in DOMAIN config.dp
dps(dp_index) == device[dp_index]
dps_conf(conf_item) == dps(config.dp[conf_item])

Last(op, who, ret) ==
    [op |-> op, who |-> who, ret |-> ret,
     mode |-> hvac_mode, preset |-> preset_mode, action |-> hvac_action]

(***************************************************************************)
(* status_updated                                                          *)
(***************************************************************************)
\* dict.items() of the items of a table entry or of alldps, as a set
Items(seq) == Range(seq)
\* a.items() & b.items(): the members of one that equal a member of the other
ItemsAnd(a, b) == {y \in b : \E x \in a : x[1] = y[1] /\ PyEq(x[2], y[2])}
\* set == dict items: as many members, each of one equal to one of the other
ItemsEq(a, b) ==
    /\ Cardinality(a) = Cardinality(b)
    /\ \A y \in b : \E x \in a : x[1] = y[1] /\ PyEq(x[2], y[2])
\* Mutant of Matches: an entry matches as soon as one of its items is in alldps.
MatchesAny(alldps, items) == ItemsAnd(Items(alldps), Items(items)) # {}
Matches(alldps, items) == ItemsEq(ItemsAnd(Items(alldps), Items(items)), Items(items))

\* for entry in table: if <entry matches>: value = entry
RECURSIVE Decode(_, _, _, _)
Decode(table, alldps, i, value) ==
    IF i > Len(table) THEN value
    ELSE Decode(table, alldps, i + 1,
                IF Matches(alldps, table[i].items) THEN table[i].name ELSE value)

\* Mutant of Resolve: the attribute is cleared before the loop.
ResolveFresh(table, alldps, value) == Decode(table, alldps, 1, NoValue)
\* Mutant of Resolve: an attribute that is set is never resolved again.
ResolveOnce(table, alldps, value) ==
    IF value # NoValue THEN value ELSE Decode(table, alldps, 1, value)
\* the loop over a table, from its first entry, on the attribute's value
Resolve(table, alldps, value) == Decode(table, alldps, 1, value)

\* Mutant of AllDps: DP 4 is left out of the snapshot.
AllDpsWithout4 == << <<1, dps(1)>>, <<5, dps(5)>> >>
AllDps == << <<1, dps(1)>>, <<4, dps(4)>>, <<5, dps(5)>> >>

ToPhysical(raw, precision) == FMulInt(raw.v, precision)

status_updated ==
    /\ target_temperature' =
          IF has_config(CONF_TARGET_TEMPERATURE_DP)
          THEN ToPhysical(dps_conf(CONF_TARGET_TEMPERATURE_DP), config.target_precision)
          ELSE target_temperature
    /\ current_temperature' =
          IF has_config(CONF_CURRENT_TEMPERATURE_DP)
          THEN ToPhysical(dps_conf(CONF_CURRENT_TEMPERATURE_DP), config.precision)
          ELSE current_temperature
    /\ hvac_mode' = Resolve(modes, AllDps, hvac_mode)
    /\ preset_mode' = Resolve(presets, AllDps, preset_mode)
    /\ last' = Last("status_updated", 0, NoValue)
    /\ UNCHANGED <<config, device, hvac_action, tasks>>

(***************************************************************************)
(* hvac_action                                                             *)
(***************************************************************************)
\* Mutant of HeatAction: where c == t - p the action is switched, not kept.
HeatActionSwitched(c, t, p, action) ==
    IF FLess(t, FAdd(c, p)) THEN CURRENT_HVAC_OFF
    ELSE IF FLess(c, FSub(t, p)) THEN CURRENT_HVAC_HEAT
    ELSE IF c = FSub(t, p)
         THEN IF action = CURRENT_HVAC_HEAT THEN CURRENT_HVAC_OFF ELSE CURRENT_HVAC_HEAT
         ELSE action
\* the three ifs of the heat branch, in order
HeatAction(c, t, p, action) ==
    LET a1 == IF FLess(c, FSub(t, p)) THEN CURRENT_HVAC_HEAT ELSE action
        a2 == IF c = FSub(t, p)
              THEN LET b1 == IF a1 = CURRENT_HVAC_HEAT THEN CURRENT_HVAC_HEAT ELSE a1
                   IN  IF b1 = CURRENT_HVAC_OFF THEN CURRENT_HVAC_OFF ELSE b1
              ELSE a1
    IN  IF FLess(t, FAdd(c, p)) THEN CURRENT_HVAC_OFF ELSE a2

\* None in a comparison or a subtraction raises TypeError
HeatRaises == current_temperature = None \/ target_temperature = None

\* Mutant of read_hvac_action: the comparisons are made whatever the mode.
read_hvac_action_in_any_mode ==
    /\ IF HeatRaises
       THEN /\ hvac_action' = hvac_action
            /\ last' = Last("hvac_action", 0, "TypeError")
       ELSE /\ hvac_action' = HeatAction(current_temperature, target_temperature,
                                         config.precision, hvac_action)
            /\ last' = Last("hvac_action", 0, hvac_action')
    /\ UNCHANGED <<config, device, hvac_mode, preset_mode, target_temperature,
                   current_temperature, tasks>>

read_hvac_action ==
    /\ IF hvac_mode = HVAC_MODE_HEAT
       THEN IF HeatRaises
            THEN /\ hvac_action' = hvac_action
                 /\ last' = Last("hvac_action", 0, "TypeError")
            ELSE /\ hvac_action' = HeatAction(current_temperature, target_temperature,
                                              config.precision, hvac_action)
                 /\ last' = Last("hvac_action", 0, hvac_action')
       ELSE /\ hvac_action' = hvac_action
            /\ last' = Last("hvac_action", 0, hvac_action)
    /\ UNCHANGED <<config, device, hvac_mode, preset_mode, target_temperature,
                   current_temperature, tasks>>

(***************************************************************************)
(* The device: a DP changes on the device itself (a button, the sensor).   *)
(***************************************************************************)
DpValues(dp) ==
    CASE dp = 1 -> {None, PyBool(TRUE), PyBool(FALSE), PyInt(1)}
      [] dp = 4 -> {None, PyStr(0), PyStr(1)}
      [] dp = 5 -> {None, PyBool(TRUE), PyBool(FALSE)}
      [] OTHER  -> {PyInt(n) : n \in 0..MaxRaw}

device_reports(dp, value) ==
    /\ device[dp] # value
    /\ device' = [device EXCEPT ![dp] = value]
    /\ last' = Last("device_reports", 0, NoValue)
    /\ UNCHANGED <<config, entity, tasks>>

(***************************************************************************)
(* Commands.  A command is a coroutine: it issues a write with set_dp,     *)
(* waits for it, and goes on when the device has acknowledged it; a write  *)
(* that times out or meets a disconnect raises in the coroutine.           *)
(***************************************************************************)
IdleTask ==
    [op |-> NoValue, arg |-> NoValue, items |-> <<>>, issued |-> <<>>, applied |-> <<>>,
     state |-> "idle", exc |-> NoValue]
\* Mutant of Begin: the writes are all issued at once (gathered), not one by one.
BeginAll(op, arg, items) ==
    The({[op |-> op, arg |-> arg, items |-> its, issued |-> its, applied |-> <<>>,
          state |-> IF its = <<>> THEN "returned" ELSE "awaiting", exc |-> NoValue] :
         its \in {items}})
\* the coroutine enters its loop over items: the first write is issued, or the
\* loop is empty and the coroutine returns
Begin(op, arg, items) ==
    The({[op |-> op, arg |-> arg, items |-> its,
          issued |-> IF its = <<>> THEN <<>> ELSE <<its[1]>>, applied |-> <<>>,
          state |-> IF its = <<>> THEN "returned" ELSE "awaiting", exc |-> NoValue] :
         its \in {items}})
\* table[name] raised KeyError
Raise(op, arg, exc) ==
    [op |-> op, arg |-> arg, items |-> <<>>, issued |-> <<>>, applied |-> <<>>,
     state |-> "raised", exc |-> exc]

\* Mutant of SetFromTable: table.get(name, {}), an unknown name is a command
\* of no writes.
SetFromTableGet(op, table, name) ==
    IF name \in Names(table)
    THEN Begin(op, name, table[Lookup(table, name)].items)
    ELSE Begin(op, name, <<>>)
\* for key in table[name].keys(): await self._device.set_dp(table[name].get(key), key)
SetFromTable(op, table, name) ==
    IF name \in Names(table)
    THEN Begin(op, name, table[Lookup(table, name)].items)
    ELSE Raise(op, name, "KeyError")

async_set_hvac_mode(c, hvac_mode_arg) ==
    /\ tasks[c].state # "awaiting"
    /\ tasks' = [tasks EXCEPT ![c] = SetFromTable("async_set_hvac_mode", modes, hvac_mode_arg)]
    /\ last' = Last("async_set_hvac_mode", c, NoValue)
    /\ UNCHANGED <<config, device, entity>>

async_set_preset_mode(c, preset_mode_arg) ==
    /\ tasks[c].state # "awaiting"
    /\ tasks' = [tasks EXCEPT ![c] = SetFromTable("async_set_preset_mode", presets, preset_mode_arg)]
    /\ last' = Last("async_set_preset_mode", c, NoValue)
    /\ UNCHANGED <<config, device, entity>>

\* Mutant of SetTemperature: the request is scaled by the precision of the
\* current temperature.
SetTemperatureByPrecision(temperature) ==
    IF temperature # None /\ has_config(CONF_TARGET_TEMPERATURE_DP)
    THEN Begin("async_set_temperature", temperature,
               << <<config.dp[CONF_TARGET_TEMPERATURE_DP],
                    PyInt(PyRound(FDiv(temperature, config.precision)))>> >>)
    ELSE Begin("async_set_temperature", temperature, <<>>)
\* kwargs holds ATTR_TEMPERATURE (a float) or does not (temperature is None)
SetTemperature(temperature) ==
    IF temperature # None /\ has_config(CONF_TARGET_TEMPERATURE_DP)
    THEN Begin("async_set_temperature", temperature,
               << <<config.dp[CONF_TARGET_TEMPERATURE_DP],
                    PyInt(PyRound(FDiv(temperature, config.target_precision)))>> >>)
    ELSE Begin("async_set_temperature", temperature, <<>>)

async_set_temperature(c, temperature) ==
    /\ tasks[c].state # "awaiting"
    /\ tasks' = [tasks EXCEPT ![c] = SetTemperature(temperature)]
    /\ last' = Last("async_set_temperature", c, NoValue)
    /\ UNCHANGED <<config, device, entity>>

\* Mutant of Resume: the loop is left after its first write.
ResumeStop(task) ==
    [task EXCEPT !.applied = Append(task.applied, task.issued[Len(task.issued)]),
                 !.state = "returned"]
\* the coroutine goes on after an acknowledged write: the next write, or the end
Resume(task) ==
    LET applied == Append(task.applied, task.issued[Len(task.issued)])
    IN  IF Len(task.issued) < Len(task.items)
        THEN [task EXCEPT !.applied = applied,
                          !.issued = Append(task.issued, task.items[Len(task.issued) + 1])]
        ELSE [task EXCEPT !.applied = applied, !.state = "returned"]

\* Mutant of Abort: the exception is caught inside the loop, which goes on to
\* the next write.
AbortCaught(task) ==
    IF Len(task.issued) < Len(task.items)
    THEN [task EXCEPT !.issued = Append(task.issued, task.items[Len(task.issued) + 1])]
    ELSE [task EXCEPT !.state = "returned"]
\* the exception of a failed write leaves the loop and the coroutine
Abort(task) == [task EXCEPT !.state = "raised", !.exc = "TransportError"]

\* the device acknowledges the write in flight: the DP holds the value
set_dp_acked(c) ==
    /\ tasks[c].state = "awaiting"
    /\ LET w == tasks[c].issued[Len(tasks[c].issued)]
       IN  device' = [device EXCEPT ![w[1]] = w[2]]
    /\ tasks' = [tasks EXCEPT ![c] = Resume(tasks[c])]
    /\ last' = Last("set_dp_acked", c, NoValue)
    /\ UNCHANGED <<config, entity>>

\* the write in flight times out or the device disconnects: the DP is as it was
set_dp_failed(c) ==
    /\ tasks[c].state = "awaiting"
    /\ tasks' = [tasks EXCEPT ![c] = Abort(tasks[c])]
    /\ last' = Last("set_dp_failed", c, NoValue)
    /\ UNCHANGED <<config, device, entity>>

(***************************************************************************)
(* Specifications.                                                         *)
(***************************************************************************)
\* the entity as __init__ leaves it
InitEntity ==
    /\ hvac_mode = NoValue
    /\ preset_mode = NoValue
    /\ hvac_action = NoValue
    /\ target_temperature = None
    /\ current_temperature = None
    /\ last = [op |-> "__init__", who |-> 0, ret |-> NoValue,
               mode |-> NoValue, preset |-> NoValue, action |-> NoValue]

TemperatureDps == [target_temperature_dp |-> 2, current_temperature_dp |-> 3]
Config(precision, target_precision, dp) ==
    [precision |-> precision, target_precision |-> target_precision, dp |-> dp]
\* a thermostat that is off, Eco off, its temperature DPs at 0
DeviceOff == [dp \in {1, 2, 3, 4, 5} |->
                CASE dp = 1 -> PyBool(FALSE)
                  [] dp = 4 -> PyStr(0)
                  [] dp = 5 -> PyBool(FALSE)
                  [] OTHER  -> PyInt(0)]
Callers == {1}
HvacModeArgs == Names(modes) \cup {"cool"}
PresetModeArgs == Names(presets) \cup {"comfort"}

\* decoding and the mode and preset commands of one caller, the temperatures at rest
Init ==
    /\ config \in {Config(DEFAULT_CURRENT_TEMPERATURE_MULTIPLIER,
                          DEFAULT_TARGET_TEMPERATURE_MULTIPLIER, dp) :
                   dp \in {TemperatureDps, <<>>}}
    /\ device = DeviceOff
    /\ tasks = [c \in Callers |-> IdleTask]
    /\ InitEntity
Next ==
    \/ status_updated
    \/ read_hvac_action
    \/ \E dp \in {1, 4, 5} : \E value \in DpValues(dp) : device_reports(dp, value)
    \/ \E c \in DOMAIN tasks : \E name \in HvacModeArgs : async_set_hvac_mode(c, name)
    \/ \E c \in DOMAIN tasks : \E name \in PresetModeArgs : async_set_preset_mode(c, name)
    \/ \E c \in DOMAIN tasks : set_dp_acked(c)
    \/ \E c \in DOMAIN tasks : set_dp_failed(c)
Spec == Init /\ [][Next]_vars

\* the HVAC action of a thermostat in heat mode as its temperatures move, under
\* every pair of precisions
DeviceHeat == [DeviceOff EXCEPT ![1] = PyBool(TRUE), ![4] = PyStr(1)]
InitHvac ==
    /\ config \in {Config(p, tp, TemperatureDps) : p \in Precisions, tp \in Precisions}
    /\ device = DeviceHeat
    /\ tasks = [c \in Callers |-> IdleTask]
    /\ InitEntity
NextHvac ==
    \/ status_updated
    \/ read_hvac_action
    \/ \E dp \in {2, 3} : \E value \in DpValues(dp) : device_reports(dp, value)
SpecHvac == InitHvac /\ [][NextHvac]_vars

\* the set-temperature command and the target temperature read back, under every
\* pair of precisions, with and without the temperature DPs configured
Requests == {Halves(k) : k \in 0..MaxReq}
InitTemp ==
    /\ config \in {Config(p, tp, dp) : p \in Precisions, tp \in Precisions,
                                       dp \in {TemperatureDps, <<>>}}
    /\ device = DeviceOff
    /\ tasks = [c \in Callers |-> IdleTask]
    /\ InitEntity
NextTemp ==
    \/ status_updated
    \/ \E value \in DpValues(2) : device_reports(2, value)
    \/ \E c \in DOMAIN tasks : \E temperature \in Requests \cup {None, target_temperature} :
          async_set_temperature(c, temperature)
    \/ \E c \in DOMAIN tasks : set_dp_acked(c)
    \/ \E c \in DOMAIN tasks : set_dp_failed(c)
SpecTemp == InitTemp /\ [][NextTemp]_vars

\* the scaling of the temperatures there and back: the device's temperature
\* DPs at any raw value, the target temperature read and then set again
MaxScaleRaw == 20
InitScale ==
    /\ config \in {Config(p, tp, TemperatureDps) : p \in Precisions, tp \in Precisions}
    /\ device \in {[DeviceOff EXCEPT ![2] = PyInt(target), ![3] = PyInt(current)] :
                   target \in 0..MaxScaleRaw, current \in 0..MaxScaleRaw}
    /\ tasks = [c \in Callers |-> IdleTask]
    /\ InitEntity
NextScale ==
    \/ status_updated
    \/ \E c \in DOMAIN tasks : async_set_temperature(c, target_temperature)
    \/ \E c \in DOMAIN tasks : set_dp_acked(c)
SpecScale == InitScale /\ [][NextScale]_vars

\* the HVAC action as the mode and the temperatures change, with the default
\* precisions, with and without the temperature DPs configured
InitAction ==
    /\ config \in {Config(DEFAULT_CURRENT_TEMPERATURE_MULTIPLIER,
                          DEFAULT_TARGET_TEMPERATURE_MULTIPLIER, dp) :
                   dp \in {TemperatureDps, <<>>}}
    /\ device = DeviceHeat
    /\ tasks = [c \in Callers |-> IdleTask]
    /\ InitEntity
NextAction ==
    \/ status_updated
    \/ read_hvac_action
    \/ \E value \in {PyBool(TRUE), PyBool(FALSE)} : device_reports(1, value)
    \/ \E value \in {PyStr(0), PyStr(1)} : device_reports(4, value)
    \/ \E dp \in {2, 3} : \E value \in DpValues(dp) : device_reports(dp, value)
SpecAction == InitAction /\ [][NextAction]_vars

\* the mode and preset commands of one caller with every write acknowledged and
\* no other writer, from any DP state of the device
DeviceStates ==
    {[DeviceOff EXCEPT ![1] = power, ![4] = mode, ![5] = eco] :
        power \in DpValues(1), mode \in DpValues(4), eco \in DpValues(5)}
InitEncode ==
    /\ config = Config(DEFAULT_CURRENT_TEMPERATURE_MULTIPLIER,
                       DEFAULT_TARGET_TEMPERATURE_MULTIPLIER, TemperatureDps)
    /\ device \in DeviceStates
    /\ tasks = [c \in Callers |-> IdleTask]
    /\ InitEntity
NextEncode ==
    \/ status_updated
    \/ \E c \in DOMAIN tasks : \E name \in Names(modes) : async_set_hvac_mode(c, name)
    \/ \E c \in DOMAIN tasks : \E name \in Names(presets) : async_set_preset_mode(c, name)
    \/ \E c \in DOMAIN tasks : set_dp_acked(c)
SpecEncode == InitEncode /\ [][NextEncode]_vars

\* the set-mode commands of two callers, not serialized: their writes
\* interleave in any order, every write acknowledged, from any DP state
TwoCallers == {1, 2}
InitTwo ==
    /\ config = Config(DEFAULT_CURRENT_TEMPERATURE_MULTIPLIER,
                       DEFAULT_TARGET_TEMPERATURE_MULTIPLIER, TemperatureDps)
    /\ device \in DeviceStates
    /\ tasks = [c \in TwoCallers |-> IdleTask]
    /\ InitEntity
NextTwo ==
    \/ status_updated
    \/ \E c \in DOMAIN tasks : \E name \in Names(modes) : async_set_hvac_mode(c, name)
    \/ \E c \in DOMAIN tasks : set_dp_acked(c)
SpecTwo == InitTwo /\ [][NextTwo]_vars

(***************************************************************************)
(* Properties.  In a state that status_updated has just produced           *)
(* (last.op = "status_updated") the device's DPs are the snapshot it read, *)
(* and last.mode, last.preset and last.action are the entity's values      *)
(* before the operation.                                                   *)
(***************************************************************************)
AfterStatusUpdate == last.op = "status_updated"
\* every (dp_id, value) pair of items is in the snapshot, the values equal as
\* Python compares them
Contained(items) == \A k \in DOMAIN items : PyEq(device[items[k][1]], items[k][2])
\* ... the values of the same type as well
ContainedSame(items) == \A k \in DOMAIN items : device[items[k][1]] = items[k][2]
Max(S) == CHOOSE n \in S : \A m \in S : m <= n
IsPrefix(s, t) == Len(s) <= Len(t) /\ \A k \in DOMAIN s : s[k] = t[k]

\* C1: after a status update, for the modes and for the presets apart, when
\* the snapshot contains the whole definition of one or more entries the
\* resolved value is the last of them in table order (the values compared as
\* Python compares them, or required to be of the same type as well).
LastContained(table) == table[Max({i \in DOMAIN table : Contained(table[i].items)})].name
LastContainedSame(table) ==
    table[Max({i \in DOMAIN table : ContainedSame(table[i].items)})].name
C1_LastMatchWins ==
    AfterStatusUpdate =>
        /\ (\E i \in DOMAIN modes : Contained(modes[i].items))
              => hvac_mode = LastContained(modes)
        /\ (\E i \in DOMAIN presets : Contained(presets[i].items))
              => preset_mode = LastContained(presets)
        /\ (\E i \in DOMAIN modes : ContainedSame(modes[i].items))
              => hvac_mode = LastContainedSame(modes)
        /\ (\E i \in DOMAIN presets : ContainedSame(presets[i].items))
              => preset_mode = LastContainedSame(presets)
\* the snapshot {1: True, 4: "1", 5: True} has resolved to heat and Eco On
C1_Witness ==
    /\ AfterStatusUpdate
    /\ device[1] = PyBool(TRUE) /\ device[4] = PyStr(1) /\ device[5] = PyBool(TRUE)
    /\ last.mode # HVAC_MODE_HEAT /\ last.preset # "Eco On"
    /\ hvac_mode = HVAC_MODE_HEAT /\ preset_mode = "Eco On"

\* C2: after a status update whose snapshot contains the whole definition of
\* no mode, the resolved mode is the mode before the update, and likewise the
\* preset: a snapshot that matches nothing never resets a value.
C2_NoMatchKeeps ==
    AfterStatusUpdate =>
        /\ (\A i \in DOMAIN modes : ~Contained(modes[i].items)) => hvac_mode = last.mode
        /\ (\A i \in DOMAIN presets : ~Contained(presets[i].items))
              => preset_mode = last.preset
\* a resolved mode and preset have outlived a snapshot with DP 1 True, DP 4
\* neither "0" nor "1" and DP 5 missing
C2_Witness ==
    /\ AfterStatusUpdate
    /\ device[1] = PyBool(TRUE) /\ device[4] = None /\ device[5] = None
    /\ last.mode = HVAC_MODE_AUTO /\ hvac_mode = HVAC_MODE_AUTO
    /\ last.preset = "Eco On" /\ preset_mode = "Eco On"

\* the temperatures as the numbers they stand for, in tenths of a degree: a
\* precision, and the temperature status_updated computed from a raw DP
Tenths(precision) ==
    IF precision = PRECISION_WHOLE THEN 10 ELSE IF precision = PRECISION_HALVES THEN 5 ELSE 1
RawOf(temperature, precision) ==
    CHOOSE raw \in 0..MaxRaw : ToPhysical(PyInt(raw), precision) = temperature
AfterHeatRead == last.op = "hvac_action" /\ hvac_mode = HVAC_MODE_HEAT /\ ~HeatRaises

\* C3: in mode heat, with current temperature c, target temperature t and
\* precision p of the current temperature, a read of the HVAC action gives
\* heating if c < t - p, the action before the read if c = t - p, and idle if
\* c > t - p.
C3_Trichotomy ==
    AfterHeatRead =>
        LET p == Tenths(config.precision)
            c == RawOf(current_temperature, config.precision) * p
            t == RawOf(target_temperature, config.target_precision)
                     * Tenths(config.target_precision)
        IN  last.ret = IF c < t - p THEN CURRENT_HVAC_HEAT
                       ELSE IF c = t - p THEN last.action
                       ELSE CURRENT_HVAC_OFF

\* C4: a set-mode or set-preset command for a name of its table issues the
\* writes of that entry, one per (dp_id, value) pair and in the declared order,
\* the next one only when the one before is acknowledged: never two in flight,
\* and all of them issued and applied when the command returns.
TableOf(op) == IF op = "async_set_hvac_mode" THEN modes ELSE presets
IsTableCommand(task) ==
    /\ task.op \in {"async_set_hvac_mode", "async_set_preset_mode"}
    /\ task.arg \in Names(TableOf(task.op))
C4_SequentialWrites ==
    \A c \in DOMAIN tasks :
        IsTableCommand(tasks[c]) =>
            LET task  == tasks[c]
                items == TableOf(task.op)[Lookup(TableOf(task.op), task.arg)].items
            IN  /\ IsPrefix(task.issued, items)
                /\ IsPrefix(task.applied, task.issued)
                /\ Len(task.issued) <= Len(task.applied) + 1
                /\ task.state = "awaiting" => Len(task.issued) = Len(task.applied) + 1
                /\ task.state = "returned" => task.issued = items /\ task.applied = items
\* set mode heat has returned after (1, True) and then (4, "1")
C4_Witness ==
    \E c \in DOMAIN tasks :
        /\ tasks[c].op = "async_set_hvac_mode" /\ tasks[c].arg = HVAC_MODE_HEAT
        /\ tasks[c].state = "returned"
        /\ tasks[c].applied = << <<1, PyBool(TRUE)>>, <<4, PyStr(1)>> >>
        /\ last.op = "set_dp_acked"

\* C5: a set-mode or set-preset command for a name that its table does not
\* hold fails with KeyError and issues no write; the step changes neither the
\* device's DPs nor the resolved mode and preset.
C5_UnknownName ==
    [][(/\ last'.op \in {"async_set_hvac_mode", "async_set_preset_mode"}
        /\ tasks'[last'.who].arg \notin Names(TableOf(last'.op)))
       => /\ tasks'[last'.who].state = "raised"
          /\ tasks'[last'.who].exc = "KeyError"
          /\ tasks'[last'.who].issued = <<>>
          /\ tasks'[last'.who].applied = <<>>
          /\ device' = device
          /\ hvac_mode' = hvac_mode
          /\ preset_mode' = preset_mode]_vars
\* set mode cool has failed, a mode resolved before it
C5_Witness ==
    /\ last.op = "async_set_hvac_mode"
    /\ tasks[last.who].arg = "cool"
    /\ tasks[last.who].state = "raised"
    /\ hvac_mode = HVAC_MODE_HEAT

\* C6: when the k-th write of a command fails with a transport error the
\* command has failed to its caller with that error, no write of it is in
\* flight (the failed one is not retried), the k writes issued are the first k
\* of the command (none is issued after the failed one) and the writes applied
\* are exactly the first k - 1.
C6_FailedWrite ==
    \A c \in DOMAIN tasks :
        ((last.op = "set_dp_failed" /\ last.who = c) \/ tasks[c].exc = "TransportError") =>
            LET task == tasks[c]
            IN  /\ task.state = "raised"
                /\ task.exc = "TransportError"
                /\ IsPrefix(task.issued, task.items)
                /\ Len(task.issued) >= 1
                /\ task.applied = SubSeq(task.issued, 1, Len(task.issued) - 1)
\* set mode heat has failed at its second write, the first one applied
C6_Witness ==
    \E c \in DOMAIN tasks :
        /\ last.op = "set_dp_failed" /\ last.who = c
        /\ tasks[c].arg = HVAC_MODE_HEAT
        /\ tasks[c].issued = << <<1, PyBool(TRUE)>>, <<4, PyStr(1)>> >>
        /\ tasks[c].applied = << <<1, PyBool(TRUE)>> >>
        /\ tasks[c].state = "raised"

\* what a mode or a preset can be before a status update
ModeValues == Names(modes) \cup {NoValue}
PresetValues == Names(presets) \cup {NoValue}

\* C7, as stated: the status update gives the same resolved mode and the same
\* resolved preset from the same snapshot whatever the mode and preset
\* resolved before it.
C7_PureDecode ==
    AfterStatusUpdate =>
        /\ \A previous \in ModeValues : Resolve(modes, AllDps, previous) = hvac_mode
        /\ \A previous \in PresetValues : Resolve(presets, AllDps, previous) = preset_mode
\* C7, amended: the resolved mode (the resolved preset) is the same whatever
\* was resolved before when the snapshot contains the whole definition of some
\* entry of the table; when it contains none, the status update gives back
\* the value resolved before, whatever it was.
C7_PureWhenMatched ==
    AfterStatusUpdate =>
        /\ IF \E i \in DOMAIN modes : Contained(modes[i].items)
           THEN \A previous \in ModeValues : Resolve(modes, AllDps, previous) = hvac_mode
           ELSE \A previous \in ModeValues : Resolve(modes, AllDps, previous) = previous
        /\ IF \E i \in DOMAIN presets : Contained(presets[i].items)
           THEN \A previous \in PresetValues :
                    Resolve(presets, AllDps, previous) = preset_mode
           ELSE \A previous \in PresetValues : Resolve(presets, AllDps, previous) = previous
\* a snapshot that matches a mode and a preset has replaced a mode and a preset
\* resolved before it
C7_Witness ==
    /\ AfterStatusUpdate
    /\ \E i \in DOMAIN modes : Contained(modes[i].items)
    /\ \E i \in DOMAIN presets : Contained(presets[i].items)
    /\ last.mode \in Names(modes) /\ last.mode # hvac_mode
    /\ last.preset \in Names(presets) /\ last.preset # preset_mode

\* C8: scaling there and back gives the raw value again: a set-temperature
\* command for the target temperature that status_updated computed from a raw
\* value writes that raw value, under each target precision; and the current
\* temperature that status_updated computed, divided by the precision of the
\* current temperature and rounded, is the raw value of its DP.
C8_RoundTrip ==
    /\ \A c \in DOMAIN tasks :
          (tasks[c].op = "async_set_temperature" /\ tasks[c].arg # None) =>
              \A raw \in 0..MaxScaleRaw :
                  ToPhysical(PyInt(raw), config.target_precision) = tasks[c].arg
                      => tasks[c].items = << <<config.dp[CONF_TARGET_TEMPERATURE_DP],
                                                PyInt(raw)>> >>
    /\ (AfterStatusUpdate /\ has_config(CONF_CURRENT_TEMPERATURE_DP)) =>
          PyInt(PyRound(FDiv(current_temperature, config.precision)))
              = dps_conf(CONF_CURRENT_TEMPERATURE_DP)
\* 0.30000000000000004, read from the raw value 3 in tenths, was written back as 3
C8_Witness ==
    \E c \in DOMAIN tasks :
        /\ config.target_precision = PRECISION_TENTHS
        /\ tasks[c].op = "async_set_temperature"
        /\ tasks[c].arg = ToPhysical(PyInt(3), PRECISION_TENTHS)
        /\ tasks[c].arg # FDiv(FromInt(3), FromInt(10))
        /\ tasks[c].state = "returned"
        /\ tasks[c].applied = << <<2, PyInt(3)>> >>

\* C9: a set-temperature command issues one write, to the target-temperature
\* DP, of round(requested / target precision); without a temperature, or
\* without a target-temperature DP configured, it issues no write and returns.
C9_SetTemperature ==
    \A c \in DOMAIN tasks :
        tasks[c].op = "async_set_temperature" =>
            LET task == tasks[c]
            IN  IF task.arg # None /\ CONF_TARGET_TEMPERATURE_DP \in DOMAIN config.dp
                THEN /\ task.items =
                          << <<config.dp[CONF_TARGET_TEMPERATURE_DP],
                               PyInt(PyRound(FDiv(task.arg, config.target_precision)))>> >>
                     /\ task.issued = task.items
                     /\ IsPrefix(task.applied, task.issued)
                     /\ task.state = "returned" => task.applied = task.items
                ELSE /\ task.items = <<>> /\ task.issued = <<>> /\ task.applied = <<>>
                     /\ task.state = "returned" /\ task.exc = NoValue
\* 1.5 was requested with a target precision of 0.5 and a precision of 0.1 of
\* the current temperature, and 3 was written to the target-temperature DP
C9_Witness ==
    \E c \in DOMAIN tasks :
        /\ config.target_precision = PRECISION_HALVES
        /\ config.precision = PRECISION_TENTHS
        /\ tasks[c].op = "async_set_temperature"
        /\ tasks[c].arg = Halves(3)
        /\ tasks[c].state = "returned"
        /\ tasks[c].applied = << <<2, PyInt(3)>> >>
        /\ device[2] = PyInt(3)

\* C10: the HVAC action that a read reports is heating or idle, in every
\* state: before the first status update as well as after any status updates
\* and reads.
C10_ActionReported ==
    last.op = "hvac_action" => last.ret \in {CURRENT_HVAC_HEAT, CURRENT_HVAC_OFF}

\* C11: in mode heat the action has a hysteresis band of width 2p around the
\* target: a read with the current temperature c inside the band
\* (t - p < c < t + p) keeps the action, heating or idle, that it found.
C11_HysteresisBand ==
    (AfterHeatRead /\ last.action \in {CURRENT_HVAC_HEAT, CURRENT_HVAC_OFF}) =>
        LET p == Tenths(config.precision)
            c == RawOf(current_temperature, config.precision) * p
            t == RawOf(target_temperature, config.target_precision)
                     * Tenths(config.target_precision)
        IN  (t - p < c /\ c < t + p) => last.ret = last.action

\* C12: a read of the HVAC action in a mode other than heat (off, auto, none
\* resolved yet) compares no temperatures, leaves the carried action as it is
\* and returns it; and the carried action changes in no other step than a read
\* in mode heat, so what is returned after heat mode is left is what the last
\* read in heat mode computed.
C12_NonHeatRead ==
    [][/\ (last'.op = "hvac_action" /\ hvac_mode # HVAC_MODE_HEAT)
            => (last'.ret = hvac_action /\ hvac_action' = hvac_action)
       /\ hvac_action' # hvac_action
            => (last'.op = "hvac_action" /\ hvac_mode = HVAC_MODE_HEAT)]_vars
\* heating, computed in mode heat, is returned in mode off with the current
\* temperature above the target
C12_Witness ==
    /\ last.op = "hvac_action"
    /\ hvac_mode = HVAC_MODE_OFF
    /\ last.ret = CURRENT_HVAC_HEAT
    /\ ~HeatRaises
    /\ FLess(target_temperature, current_temperature)

\* the snapshot holds, for a DP of items, a value of another type than the
\* one the table gives it
TypeMismatch(items) ==
    \E k \in DOMAIN items : device[items[k][1]].t \notin {"none", items[k][2].t}

\* C13: a status update skips an entry for which the snapshot holds a value of
\* another type than the table expects (the int 1 or the str "1" for True):
\* the entry is the resolved mode or preset after the update only if it was
\* before it.
C13_TypeMismatchSkipped ==
    AfterStatusUpdate =>
        /\ \A i \in DOMAIN modes :
              (TypeMismatch(modes[i].items) /\ hvac_mode = modes[i].name)
                  => last.mode = modes[i].name
        /\ \A i \in DOMAIN presets :
              (TypeMismatch(presets[i].items) /\ preset_mode = presets[i].name)
                  => last.preset = presets[i].name

\* C14: with the temperature DPs left unconfigured no operation raises an
\* error: the status updates complete and a read of the HVAC action returns, in
\* every resolved mode, heat included.
C14_UnconfiguredNoError ==
    (/\ ~has_config(CONF_TARGET_TEMPERATURE_DP)
     /\ ~has_config(CONF_CURRENT_TEMPERATURE_DP)
     /\ last.op \in {"status_updated", "hvac_action"})
        => last.ret # "TypeError"

\* C15: a set-mode command that fails partway can leave the device in a DP
\* state that decodes to a third mode: whenever set mode auto has failed at its
\* second write, (1, True) applied, and the device holds DP 1 True and DP 4 "1",
\* a status update resolves the mode to heat, which is not the mode requested
\* (and, in the witness, not the mode resolved before the command either).
C15_PartialFailure ==
    \A c \in DOMAIN tasks :
        (/\ AfterStatusUpdate
         /\ tasks[c].op = "async_set_hvac_mode" /\ tasks[c].arg = HVAC_MODE_AUTO
         /\ tasks[c].exc = "TransportError"
         /\ tasks[c].applied = << <<1, PyBool(TRUE)>> >>
         /\ device[1] = PyBool(TRUE) /\ device[4] = PyStr(1))
            => hvac_mode = HVAC_MODE_HEAT
\* from {1: False, 4: "1"}, resolved to off, set mode auto failed after
\* (1, True): the next status update has resolved heat
C15_Witness ==
    \E c \in DOMAIN tasks :
        /\ AfterStatusUpdate
        /\ tasks[c].op = "async_set_hvac_mode" /\ tasks[c].arg = HVAC_MODE_AUTO
        /\ tasks[c].exc = "TransportError"
        /\ tasks[c].applied = << <<1, PyBool(TRUE)>> >>
        /\ device[1] = PyBool(TRUE) /\ device[4] = PyStr(1)
        /\ last.mode = HVAC_MODE_OFF
        /\ hvac_mode = HVAC_MODE_HEAT

\* C16: from any DP state and any mode resolved before, when a set-mode
\* command has returned, every write acknowledged and no one else writing, a
\* status update resolves the mode to the one requested; likewise a set-preset
\* command and the preset.
C16_EncodeDecode ==
    \A c \in DOMAIN tasks :
        (AfterStatusUpdate /\ IsTableCommand(tasks[c]) /\ tasks[c].state = "returned") =>
            /\ tasks[c].op = "async_set_hvac_mode" => hvac_mode = tasks[c].arg
            /\ tasks[c].op = "async_set_preset_mode" => preset_mode = tasks[c].arg
\* set mode heat has returned on a device resolved to auto, and the status
\* update has resolved heat
C16_Witness ==
    \E c \in DOMAIN tasks :
        /\ AfterStatusUpdate
        /\ tasks[c].op = "async_set_hvac_mode" /\ tasks[c].arg = HVAC_MODE_HEAT
        /\ tasks[c].state = "returned"
        /\ last.mode = HVAC_MODE_AUTO
        /\ hvac_mode = HVAC_MODE_HEAT

\* C17: when the set-mode commands of two callers, their writes interleaved in
\* any order, have both returned with every write acknowledged, a status update
\* resolves the mode to one of the two modes requested, whatever the two modes
\* and the DP state they started from.
C17_TwoCommands ==
    (AfterStatusUpdate /\ \A c \in DOMAIN tasks : tasks[c].state = "returned")
        => \E c \in DOMAIN tasks : hvac_mode = tasks[c].arg
\* set mode auto and set mode off have both returned and off is resolved, heat
\* (neither of the two) resolved by the status update before
C17_Witness ==
    /\ AfterStatusUpdate
    /\ \A c \in DOMAIN tasks : tasks[c].state = "returned"
    /\ {tasks[c].arg : c \in DOMAIN tasks} = {HVAC_MODE_AUTO, HVAC_MODE_OFF}
    /\ last.mode = HVAC_MODE_HEAT
    /\ hvac_mode = HVAC_MODE_OFF

\* C18: the modes and the presets are independent: a write of a set-preset
\* command goes to DP 5 and leaves what the modes table resolves from the
\* device's DPs as it was, whatever was resolved before; a write of a set-mode
\* command goes to DP 1 or DP 4 and leaves what the presets table resolves as
\* it was; and neither writes the target-temperature DP.
C18_ModePresetIndependent ==
    [][\A c \in DOMAIN tasks :
          (last'.op = "set_dp_acked" /\ last'.who = c /\ tasks[c].issued # <<>>) =>
              LET write == tasks[c].issued[Len(tasks[c].issued)]
              IN  /\ tasks[c].op = "async_set_preset_mode" =>
                        /\ write[1] = 5
                        /\ \A value \in ModeValues :
                              Resolve(modes, AllDps, value)' = Resolve(modes, AllDps, value)
                  /\ tasks[c].op = "async_set_hvac_mode" =>
                        /\ write[1] \in {1, 4}
                        /\ \A value \in PresetValues :
                              Resolve(presets, AllDps, value)'
                                  = Resolve(presets, AllDps, value)
                  /\ has_config(CONF_TARGET_TEMPERATURE_DP) =>
                        /\ write[1] # config.dp[CONF_TARGET_TEMPERATURE_DP]
                        /\ dps_conf(CONF_TARGET_TEMPERATURE_DP)'
                               = dps_conf(CONF_TARGET_TEMPERATURE_DP)]_vars
\* set preset Eco On has returned, DP 5 switched to True, on a device in mode
\* heat, which the entity had resolved
C18_Witness ==
    \E c \in DOMAIN tasks :
        /\ last.op = "set_dp_acked" /\ last.who = c
        /\ tasks[c].op = "async_set_preset_mode" /\ tasks[c].arg = "Eco On"
        /\ tasks[c].state = "returned"
        /\ device[5] = PyBool(TRUE)
        /\ preset_mode = "Eco Off"
        /\ hvac_mode = HVAC_MODE_HEAT
        /\ Resolve(modes, AllDps, NoValue) = HVAC_MODE_HEAT

\* C19: reads of the HVAC action that follow one another, no status update
\* between them, return what the first of them returned and leave the carried
\* action at that value; a read that returns leaves the carried action at the
\* value returned; and the carried action changes in a read only, never in a
\* status update.
C19_ReadIdempotent ==
    [][/\ (last.op = "hvac_action" /\ last'.op = "hvac_action")
            => (last'.ret = last.ret /\ hvac_action' = hvac_action)
       /\ (last'.op = "hvac_action" /\ last'.ret # "TypeError")
            => hvac_action' = last'.ret
       /\ hvac_action' # hvac_action => last'.op = "hvac_action"]_vars
\* a read at c == t - p has found the action heating and returned heating: the
\* state every further read in a row comes back to
C19_Witness ==
    /\ AfterHeatRead
    /\ current_temperature = FSub(target_temperature, config.precision)
    /\ last.action = CURRENT_HVAC_HEAT
    /\ last.ret = CURRENT_HVAC_HEAT
    /\ hvac_action = CURRENT_HVAC_HEAT

====
